---- MODULE Spec2Model ----
(***************************************************************************)
(* A model of super_productivity_cli: the SupProd client (client.py) that  *)
(* downloads one JSON document from a remote file store, mutates it in     *)
(* memory and uploads it whole, and the list/urls commands (__main__.py).  *)
(*                                                                         *)
(* A run is one process using one SupProd object.  Its steps are cut at    *)
(* the network calls: every action holds exactly one access to the         *)
(* `contents` property (one files_download) or one update_contents (one    *)
(* files_upload), with the code between two network calls attached to the  *)
(* call before it.                                                         *)
(***************************************************************************)
EXTENDS Integers, Sequences, FiniteSets, TLC

\* ------------------------------------------------------------------ bounds

\* Calls one run issues (Spec; in SpecConc every run issues one).
MaxCalls == 2

\* ------------------------------------------------------------ Python values

\* None (JSON null).
NULL == "<None>"

\* bool(x) is False: the left operand of `or` is dropped (client.py:84, 98).
Falsy(x) == x \in {NULL, ""}

Range(s) == {s[i] : i \in DOMAIN s}

\* Number of occurrences of x in the list s.
Count(s, x) == Cardinality({i \in DOMAIN s : s[i] = x})

\* list.remove(x): drops the first occurrence (the caller checks x is there).
FirstIndex(s, x) == CHOOSE i \in DOMAIN s : s[i] = x /\ \A j \in 1..(i - 1) : s[j] # x
list_remove(s, x) ==
    LET k == FirstIndex(s, x)
    IN  [i \in 1..(Len(s) - 1) |-> IF i < k THEN s[i] ELSE s[i + 1]]

\* reversed(s)
reversed(s) == [i \in 1..Len(s) |-> s[Len(s) + 1 - i]]

\* dict[k] = v and dict.pop(k)
dict_set(d, k, v) == [x \in DOMAIN d \cup {k} |-> IF x = k THEN v ELSE d[x]]
dict_pop(d, k) == [x \in DOMAIN d \ {k} |-> d[x]]

\* str(i) for the positive integers a run can reach.
Numerals == <<"1", "2", "3", "4", "5", "6", "7", "8", "9", "10", "11", "12">>
str(i) == Numerals[i]

\* int(x) succeeds: x is a decimal literal.  "01" parses (to 1) although no
\* str(i) yields it; "a" raises ValueError.
int_parses(x) == x \in Range(Numerals) \cup {"01"}

\* str.strip() on the titles of the model, and str.lower() on its project names.
strip(s) == CASE s = " milk" -> "milk" [] s = "tea " -> "tea" [] OTHER -> s
lower(s) == CASE s \in {"Work", "WORK"} -> "work" [] s = "Inbox" -> "inbox" [] OTHER -> s

\* --------------------------------------------------------------- documents

\* Task.title, Task.done, Task.project_id, Task.tags over a task record.
Title(t) == strip(t.title)
Done(t) == t.isDone

\* SupProd.all_tasks: the records in the order of task.ids.  A KeyError when
\* an id has no entity.
all_tasks_raises(c) == \E i \in DOMAIN c.task.ids : c.task.ids[i] \notin DOMAIN c.task.entities
all_tasks(c) == [i \in DOMAIN c.task.ids |-> c.task.entities[c.task.ids[i]]]

\* SupProd.tasks
tasks(c) == SelectSeq(all_tasks(c), LAMBDA x : ~Done(x))

\* SupProd.get_tasks_with_tag and SupProd.todays_tasks
get_tasks_with_tag(c, tag) == SelectSeq(tasks(c), LAMBDA x : tag \in Range(x.tagIds))
todays_tasks(c) == get_tasks_with_tag(c, "TODAY")

\* SupProd.get_task_by_title: TRUE when a candidate exists (the result is not None).
get_task_by_title(c, title) == \E i \in DOMAIN tasks(c) : Title(tasks(c)[i]) = title

\* SupProd.default_project_id: the KeyError of a missing key gives None too.
default_project_id(c) ==
    IF "defaultProjectId" \notin DOMAIN c.globalConfig.misc THEN NULL
    ELSE IF Falsy(c.globalConfig.misc["defaultProjectId"]) THEN NULL
    ELSE c.globalConfig.misc["defaultProjectId"]

\* SupProd.new_task_id: the first str(i), i = 1, 2, ..., not in task.ids.
RECURSIVE new_task_id_from(_, _)
new_task_id_from(i, ids) ==
    IF str(i) \in Range(ids) THEN new_task_id_from(i + 1, ids) ELSE str(i)
\* Mutant: the id is one more than the number of tasks.
new_task_id_by_count(c) == str(Len(c.task.ids) + 1)
new_task_id(c) == new_task_id_from(1, c.task.ids)

\* The record create_task stores (client.py:107-130); the fields no operation
\* of the model reads are left out.
task_record(task_title, project_id, task_id) ==
    [title |-> task_title, projectId |-> project_id, id |-> task_id,
     isDone |-> FALSE, tagIds |-> <<>>, attachments |-> <<>>]

\* Mutant: the task is not registered in its project's taskIds.
create_task_mutate_no_project(c, task_id, task_title, project_id, is_today) ==
    LET tagged == is_today \/ project_id = NULL
        c1 == [c EXCEPT !.task.ids = Append(@, task_id),
                        !.task.entities = dict_set(@, task_id,
                                            [task_record(task_title, project_id, task_id)
                                                EXCEPT !.tagIds = IF tagged THEN <<"TODAY">>
                                                                  ELSE <<>>])]
    IN  IF project_id # NULL /\ project_id \notin DOMAIN c.project.entities
        THEN [raised |-> TRUE, contents |-> c]
        ELSE IF tagged /\ "TODAY" \notin DOMAIN c.tag.entities
        THEN [raised |-> TRUE, contents |-> c]
        ELSE [raised |-> FALSE,
              contents |-> IF tagged
                           THEN [c1 EXCEPT !.tag.entities["TODAY"].taskIds = Append(@, task_id)]
                           ELSE c1]

\* Mutant: an id that task.ids already holds is not appended again.
create_task_mutate_dedup(c, task_id, task_title, project_id, is_today) ==
    LET tagged == is_today \/ project_id = NULL
        c1 == [c EXCEPT !.task.ids = IF task_id \in Range(@) THEN @ ELSE Append(@, task_id),
                        !.task.entities = dict_set(@, task_id,
                                            [task_record(task_title, project_id, task_id)
                                                EXCEPT !.tagIds = IF tagged THEN <<"TODAY">>
                                                                  ELSE <<>>])]
        c2 == IF project_id # NULL
              THEN [c1 EXCEPT !.project.entities[project_id].taskIds = Append(@, task_id)]
              ELSE c1
    IN  IF project_id # NULL /\ project_id \notin DOMAIN c.project.entities
        THEN [raised |-> TRUE, contents |-> c]
        ELSE IF tagged /\ "TODAY" \notin DOMAIN c.tag.entities
        THEN [raised |-> TRUE, contents |-> c]
        ELSE [raised |-> FALSE,
              contents |-> IF tagged
                           THEN [c2 EXCEPT !.tag.entities["TODAY"].taskIds = Append(@, task_id)]
                           ELSE c2]

\* create_task, lines 105-137, on the downloaded document c: the document to
\* upload, or raised (a KeyError: the project or the TODAY tag is missing).
create_task_mutate(c, task_id, task_title, project_id, is_today) ==
    LET tagged == is_today \/ project_id = NULL
        c1 == [c EXCEPT !.task.ids = Append(@, task_id),
                        !.task.entities = dict_set(@, task_id,
                                            task_record(task_title, project_id, task_id))]
        c2 == IF project_id # NULL
              THEN [c1 EXCEPT !.project.entities[project_id].taskIds = Append(@, task_id)]
              ELSE c1
        c3 == IF tagged
              THEN [c2 EXCEPT !.task.entities[task_id].tagIds = Append(@, "TODAY"),
                              !.tag.entities["TODAY"].taskIds = Append(@, task_id)]
              ELSE c2
    IN  IF project_id # NULL /\ project_id \notin DOMAIN c.project.entities
        THEN [raised |-> TRUE, contents |-> c]
        ELSE IF tagged /\ "TODAY" \notin DOMAIN c.tag.entities
        THEN [raised |-> TRUE, contents |-> c]
        ELSE [raised |-> FALSE, contents |-> c3]

\* Mutant: the entity of a removed id is kept.
cleanup_body_keeps_entity(c, x) ==
    IF ~int_parses(x) THEN [raised |-> TRUE, contents |-> c]
    ELSE IF x \notin DOMAIN c.task.entities THEN [raised |-> TRUE, contents |-> c]
    ELSE IF "DEFAULT" \notin DOMAIN c.project.entities THEN [raised |-> TRUE, contents |-> c]
    ELSE IF x \notin Range(c.project.entities["DEFAULT"].taskIds) THEN [raised |-> TRUE, contents |-> c]
    ELSE IF "TODAY" \notin DOMAIN c.tag.entities THEN [raised |-> TRUE, contents |-> c]
    ELSE IF x \notin Range(c.tag.entities["TODAY"].taskIds) THEN [raised |-> TRUE, contents |-> c]
    ELSE [raised |-> FALSE,
          contents |-> [c EXCEPT !.task.ids = list_remove(@, x),
                                 !.project.entities["DEFAULT"].taskIds = list_remove(@, x),
                                 !.tag.entities["TODAY"].taskIds = list_remove(@, x)]]

\* One pass of the body of cleanup_manual's loop (client.py:148-155) for the
\* id x.  int(x) raises ValueError for a non-integer id, which the handler
\* (except AttributeError) does not catch; pop raises KeyError and remove
\* raises ValueError when x is absent.
cleanup_body(c, x) ==
    IF ~int_parses(x) THEN [raised |-> TRUE, contents |-> c]
    ELSE IF x \notin DOMAIN c.task.entities THEN [raised |-> TRUE, contents |-> c]
    ELSE IF "DEFAULT" \notin DOMAIN c.project.entities THEN [raised |-> TRUE, contents |-> c]
    ELSE IF x \notin Range(c.project.entities["DEFAULT"].taskIds) THEN [raised |-> TRUE, contents |-> c]
    ELSE IF "TODAY" \notin DOMAIN c.tag.entities THEN [raised |-> TRUE, contents |-> c]
    ELSE IF x \notin Range(c.tag.entities["TODAY"].taskIds) THEN [raised |-> TRUE, contents |-> c]
    ELSE [raised |-> FALSE,
          contents |-> [c EXCEPT !.task.entities = dict_pop(@, x),
                                 !.task.ids = list_remove(@, x),
                                 !.project.entities["DEFAULT"].taskIds = list_remove(@, x),
                                 !.tag.entities["TODAY"].taskIds = list_remove(@, x)]]

\* cleanup_manual's for loop over contents["task"]["ids"], the list its body
\* shrinks: the list iterator keeps an index, `seen` positions are behind it,
\* and the next x is the element now at position seen + 1.
RECURSIVE cleanup_loop(_, _)
cleanup_loop(c, seen) ==
    IF seen >= Len(c.task.ids) THEN [raised |-> FALSE, contents |-> c]
    ELSE LET step == cleanup_body(c, c.task.ids[seen + 1])
         IN  IF step.raised THEN step ELSE cleanup_loop(step.contents, seen + 1)
cleanup_manual_mutate(c) == cleanup_loop(c, 0)

\* set_color, lines 49-50.
set_color_mutate(c, color) ==
    IF "TODAY" \notin DOMAIN c.tag.entities
    THEN [raised |-> TRUE, contents |-> c]
    ELSE [raised |-> FALSE,
          contents |-> [c EXCEPT !.tag.entities["TODAY"].theme =
                                     [primary |-> color, accent |-> color]]]

\* update_contents, line 54: the stamp.
stamped(c, t) == [c EXCEPT !.lastLocalSyncModelChange = t]

\* ------------------------------------------------------- initial documents

Theme == [primary |-> "blue", accent |-> "blue"]

\* Tasks as the host application or an earlier run of the tool left them.
\* kind "default": what create_task stores under the default project DEFAULT;
\* "p1": a task of project P1 that is not tagged TODAY; "inbox": a task of no
\* project; "done": a finished task; "stray": a task of no project that two
\* projects list; "p1today": a task of P1 tagged TODAY, with a link.
Link == [type |-> "LINK", path |-> "http://x", title |-> "x", id |-> "0.5"]
File == [type |-> "FILE", path |-> "/tmp/y", title |-> "y", id |-> "0.6"]

InitTask(id, kind) ==
    [title |-> IF kind \in {"p1", "p1today"} THEN "tea " ELSE "milk",
     projectId |-> CASE kind \in {"p1", "p1today"} -> "P1"
                     [] kind \in {"inbox", "stray"} -> NULL
                     [] OTHER -> "DEFAULT",
     id |-> id,
     isDone |-> (kind = "done"),
     tagIds |-> IF kind = "p1" THEN <<>> ELSE <<"TODAY">>,
     attachments |-> CASE kind = "p1today" -> <<File, Link>>
                       [] kind = "inbox" -> <<Link>>
                       [] OTHER -> <<>>]

ListedIn(kind, list) ==
    CASE list = "DEFAULT" -> kind \in {"default", "done", "stray"}
      [] list = "P1" -> kind \in {"p1", "p1today", "stray"}
      [] list = "TODAY" -> kind # "p1"

\* The ids of the layout (a list of <<id, kind>>) that `list` names, in order.
IdsOf(layout, list) ==
    LET sel == SelectSeq(layout, LAMBDA t : ListedIn(t[2], list))
    IN  [i \in DOMAIN sel |-> sel[i][1]]

Layouts ==
    { <<>>,
      << <<"1", "default">> >>, << <<"1", "p1">> >>, << <<"1", "inbox">> >>,
      << <<"1", "done">> >>, << <<"1", "stray">> >>,
      << <<"a", "default">> >>, << <<"01", "default">> >>,
      << <<"1", "default">>, <<"2", "default">> >>,
      << <<"1", "default">>, <<"3", "default">> >>,
      << <<"1", "default">>, <<"a", "default">> >>,
      << <<"a", "default">>, <<"1", "default">> >>,
      << <<"1", "default">>, <<"1", "default">> >>,
      << <<"1", "default">>, <<"a", "default">>, <<"2", "default">> >> }

\* globalConfig.misc, the projects and the tags the document holds, and ids
\* a project list names beside those of the layout.
Shapes ==
    { [misc |-> "P1", projects |-> {"DEFAULT", "P1"}, tags |-> {"TODAY"}, extra |-> <<>>],
      [misc |-> "DEFAULT", projects |-> {"DEFAULT", "P1"}, tags |-> {"TODAY"}, extra |-> <<>>],
      [misc |-> "", projects |-> {"DEFAULT", "P1"}, tags |-> {"TODAY"}, extra |-> <<>>],
      [misc |-> "<missing>", projects |-> {"DEFAULT", "P1"}, tags |-> {"TODAY"}, extra |-> <<>>],
      [misc |-> "PX", projects |-> {"DEFAULT", "P1"}, tags |-> {"TODAY"}, extra |-> <<>>],
      [misc |-> "P1", projects |-> {"P1"}, tags |-> {"TODAY"}, extra |-> <<>>],
      [misc |-> "P1", projects |-> {"DEFAULT", "P1"}, tags |-> {}, extra |-> <<>>],
      [misc |-> "DEFAULT", projects |-> {"DEFAULT", "P1"}, tags |-> {"TODAY"}, extra |-> <<"2">>] }

ProjectTitle(p) == IF p = "DEFAULT" THEN "Inbox" ELSE "Work"

MkDoc(layout, shape) ==
    [task |-> [ids |-> [i \in DOMAIN layout |-> layout[i][1]],
               entities |-> [x \in {layout[i][1] : i \in DOMAIN layout} |->
                               LET k == CHOOSE i \in DOMAIN layout : layout[i][1] = x
                               IN  InitTask(x, layout[k][2])]],
     project |-> [ids |-> SelectSeq(<<"DEFAULT", "P1">>, LAMBDA p : p \in shape.projects),
                  entities |-> [p \in shape.projects |->
                                  [title |-> ProjectTitle(p),
                                   taskIds |-> IF p = "P1"
                                               THEN IdsOf(layout, p) \o shape.extra
                                               ELSE IdsOf(layout, p)]]],
     tag |-> [entities |-> [g \in shape.tags |->
                              [taskIds |-> IdsOf(layout, g), theme |-> Theme]]],
     globalConfig |-> [misc |-> IF shape.misc = "<missing>"
                                THEN [k \in {} |-> NULL]
                                ELSE [k \in {"defaultProjectId"} |-> shape.misc]],
     lastLocalSyncModelChange |-> 0]

\* Every layout under the two plain shapes (a default project P1 or DEFAULT),
\* and every shape on the documents of no task and of one task.
InitDocs ==
    {MkDoc(l, s) : l \in Layouts,
                   s \in {sh \in Shapes : /\ sh.misc \in {"P1", "DEFAULT"}
                                           /\ sh.projects = {"DEFAULT", "P1"}
                                           /\ sh.tags = {"TODAY"} /\ sh.extra = <<>>}}
    \cup {MkDoc(l, s) : l \in {<<>>, << <<"1", "default">> >>}, s \in Shapes}

\* The value of a local that holds no document yet.
NoDoc == MkDoc(<<>>, [misc |-> "<missing>", projects |-> {}, tags |-> {}, extra |-> <<>>])

\* ------------------------------------------------------------------- state

VARIABLES
    remote,   \* the file at _file_path in the remote store
    now,      \* time.time(), in the unit of lastLocalSyncModelChange
    run,      \* per run: the call in progress, its locals and its counters
    start     \* the remote document the runs started from

vars == <<remote, now, run, start>>

Runs == {1, 2}

\* The inputs of the calls.
Titles == {"milk", " milk"}
ProjectArgs == {NULL, "P1"}
Batches == {<<>>, <<"milk", "tea ">>}
Colors == {"red"}

Fresh(calls) ==
    [pc |-> "idle", op |-> "", task_title |-> "", project_arg |-> NULL,
     project_id |-> NULL,
     is_today |-> TRUE, is_unique |-> FALSE, iter |-> <<>>, color |-> "",
     task_id |-> "", ids_seen |-> <<>>, downloaded |-> NoDoc, contents |-> NoDoc,
     project_title |-> NULL, today |-> FALSE, gen |-> "", listed |-> <<>>,
     printed |-> <<>>,
     result |-> "", downloads |-> 0, uploads |-> 0, left |-> calls,
     before |-> NoDoc, dropbox |-> 0, process_downloads |-> 0,
     prev |-> [op |-> "", task_title |-> "", project_arg |-> NULL, is_today |-> FALSE,
               is_unique |-> FALSE, result |-> ""],
     last_upload |-> [op |-> "", task_title |-> "", project_arg |-> NULL,
                      project_id |-> NULL,
                      is_today |-> FALSE, task_id |-> "", ids_seen |-> <<>>,
                      downloaded |-> NoDoc, uploaded |-> NoDoc]]

Init ==
    /\ remote \in InitDocs
    /\ start = remote
    /\ now = 0
    /\ run = [r \in Runs |-> Fresh(IF r = 1 THEN MaxCalls ELSE 0)]

\* ------------------------------------------------------------------ steps

\* Mutant: the document is downloaded on the first access of the process and
\* kept.
contents_cached(s) ==
    [s EXCEPT !.downloads = IF s.process_downloads = 0 THEN @ + 1 ELSE @,
              !.process_downloads = IF @ = 0 THEN 1 ELSE @,
              !.dropbox = IF @ = 0 THEN 1 ELSE @]

\* The `contents` property (client.py:38-44), seen from the run s: one
\* files_download through the `dropbox` property, which builds the client on
\* its first use only (client.py:31-36).  Nothing keeps the document.
contents(s) ==
    [s EXCEPT !.downloads = @ + 1,
              !.process_downloads = @ + 1,
              !.dropbox = IF @ = 0 THEN 1 ELSE @]

\* Where create_task downloads first and next (client.py:98, 101, 104): `or`
\* and `and` skip the property access on their right.
after_resolve(is_unique) == IF is_unique THEN "get_task_by_title" ELSE "new_task_id"
after_begin(project_id, is_unique) ==
    IF Falsy(project_id) THEN "default_project_id" ELSE after_resolve(is_unique)

\* The call returns ("ok", or "skipped" for the early return of line 102) or
\* raises: "error" for a KeyError, ValueError or AttributeError of the code,
\* "transport" for an exception of files_download.
Return(s, result) == [s EXCEPT !.pc = "done", !.result = result]

CanCall(s) == s.pc \in {"idle", "done"} /\ s.left > 0

StartCall(s, op) ==
    [s EXCEPT !.op = op, !.left = @ - 1, !.downloads = 0, !.uploads = 0,
              !.result = "", !.before = remote, !.task_id = "", !.ids_seen = <<>>,
              !.downloaded = NoDoc, !.contents = NoDoc, !.iter = <<>>,
              !.task_title = "", !.project_arg = NULL, !.project_id = NULL,
              !.is_today = TRUE,
              !.is_unique = FALSE, !.color = "", !.project_title = NULL,
              !.today = FALSE, !.gen = "", !.listed = <<>>, !.printed = <<>>,
              !.prev = [op |-> s.op, task_title |-> s.task_title,
                        project_arg |-> s.project_arg, is_today |-> s.is_today,
                        is_unique |-> s.is_unique, result |-> s.result]]

\* SupProd.create_task(task_title, project_id, is_today, is_unique) is called.
call_create_task(r, task_title, project_id, is_today, is_unique) ==
    /\ CanCall(run[r])
    /\ run' = [run EXCEPT ![r] =
                 [StartCall(run[r], "create_task") EXCEPT
                     !.task_title = task_title, !.project_arg = project_id,
                     !.project_id = project_id,
                     !.is_today = is_today, !.is_unique = is_unique,
                     !.pc = after_begin(project_id, is_unique)]]
    /\ UNCHANGED <<remote, now, start>>

\* SupProd.create_tasks(iter): create_task(task) for each title, with the
\* defaults of the other parameters (client.py:140-143).
call_create_tasks(r, iter) ==
    /\ CanCall(run[r])
    /\ run' = [run EXCEPT ![r] =
                 IF iter = <<>>
                 THEN Return(StartCall(run[r], "create_tasks"), "ok")
                 ELSE [StartCall(run[r], "create_tasks") EXCEPT
                          !.task_title = Head(iter), !.iter = Tail(iter),
                          !.pc = after_begin(NULL, FALSE)]]
    /\ UNCHANGED <<remote, now, start>>

call_cleanup_manual(r) ==
    /\ CanCall(run[r])
    /\ run' = [run EXCEPT ![r] =
                 [StartCall(run[r], "cleanup_manual") EXCEPT !.pc = "cleanup_manual"]]
    /\ UNCHANGED <<remote, now, start>>

call_set_color(r, color) ==
    /\ CanCall(run[r])
    /\ run' = [run EXCEPT ![r] =
                 [StartCall(run[r], "set_color") EXCEPT !.color = color, !.pc = "set_color"]]
    /\ UNCHANGED <<remote, now, start>>

\* create_task, line 98: project_id or self.default_project_id.
create_task_default_project_id(r) ==
    /\ run[r].pc = "default_project_id"
    /\ run' = [run EXCEPT ![r] =
                 [contents(run[r]) EXCEPT
                     !.project_id = default_project_id(remote),
                     !.pc = after_resolve(run[r].is_unique)]]
    /\ UNCHANGED <<remote, now, start>>

\* create_task, lines 101-102: the uniqueness check.
create_task_get_task_by_title(r) ==
    /\ run[r].pc = "get_task_by_title"
    /\ run' = [run EXCEPT ![r] =
                 IF all_tasks_raises(remote)
                 THEN Return(contents(run[r]), "error")
                 ELSE IF get_task_by_title(remote, run[r].task_title)
                 THEN Return(contents(run[r]), "skipped")
                 ELSE [contents(run[r]) EXCEPT !.pc = "new_task_id"]]
    /\ UNCHANGED <<remote, now, start>>

\* create_task, line 104: new_task_id() on a download of its own.
create_task_new_task_id(r) ==
    /\ run[r].pc = "new_task_id"
    /\ run' = [run EXCEPT ![r] =
                 [contents(run[r]) EXCEPT
                     !.task_id = new_task_id(remote),
                     !.ids_seen = remote.task.ids,
                     !.pc = "contents"]]
    /\ UNCHANGED <<remote, now, start>>

\* Mutant: the document is uploaded as far as it was mutated when the
\* project or the tag is missing, and the KeyError raised after.
create_task_contents_uploads_first(r) ==
    LET s == run[r]
        m == create_task_mutate(remote, s.task_id, s.task_title, s.project_id, s.is_today)
        part == [remote EXCEPT !.task.ids = Append(@, s.task_id)]
    IN  /\ s.pc = "contents"
        /\ IF m.raised
           THEN /\ remote' = stamped(part, now + 1)
                /\ now' = now + 1
                /\ run' = [run EXCEPT ![r] =
                             Return([contents(s) EXCEPT !.downloaded = remote,
                                                        !.uploads = @ + 1], "error")]
           ELSE /\ run' = [run EXCEPT ![r] =
                             [contents(s) EXCEPT !.downloaded = remote,
                                                 !.contents = m.contents,
                                                 !.pc = "update_contents"]]
                /\ UNCHANGED <<remote, now>>
        /\ UNCHANGED start

\* create_task, lines 105-137: the download that is mutated.
create_task_contents(r) ==
    LET s == run[r]
        m == create_task_mutate(remote, s.task_id, s.task_title, s.project_id, s.is_today)
    IN  /\ s.pc = "contents"
        /\ run' = [run EXCEPT ![r] =
                     IF m.raised
                     THEN Return([contents(s) EXCEPT !.downloaded = remote], "error")
                     ELSE [contents(s) EXCEPT !.downloaded = remote,
                                              !.contents = m.contents,
                                              !.pc = "update_contents"]]
        /\ UNCHANGED <<remote, now, start>>

\* cleanup_manual, lines 146-155.
cleanup_manual_contents(r) ==
    LET s == run[r]
        m == cleanup_manual_mutate(remote)
    IN  /\ s.pc = "cleanup_manual"
        /\ run' = [run EXCEPT ![r] =
                     IF m.raised
                     THEN Return([contents(s) EXCEPT !.downloaded = remote], "error")
                     ELSE [contents(s) EXCEPT !.downloaded = remote,
                                              !.contents = m.contents,
                                              !.pc = "update_contents"]]
        /\ UNCHANGED <<remote, now, start>>

\* set_color, lines 48-50.
set_color_contents(r) ==
    LET s == run[r]
        m == set_color_mutate(remote, s.color)
    IN  /\ s.pc = "set_color"
        /\ run' = [run EXCEPT ![r] =
                     IF m.raised
                     THEN Return([contents(s) EXCEPT !.downloaded = remote], "error")
                     ELSE [contents(s) EXCEPT !.downloaded = remote,
                                              !.contents = m.contents,
                                              !.pc = "update_contents"]]
        /\ UNCHANGED <<remote, now, start>>

\* Mutant: the upload is refused (the file is kept) when the file is no longer
\* the one the run downloaded.
files_upload_if_unchanged(s, file, t) ==
    IF file = s.downloaded THEN stamped(s.contents, t) ELSE file

\* What files_upload stores for the run s: mode=WriteMode('overwrite'), no
\* revision is passed, so the file is replaced whatever it holds.
files_upload(s, file, t) == stamped(s.contents, t)

\* update_contents (client.py:53-59), the last statement of create_task,
\* cleanup_manual and set_color; create_tasks then goes on to its next title.
update_contents(r) ==
    LET s == run[r]
        t == now + 1
        up == files_upload(s, remote, t)
        done == [s EXCEPT !.uploads = @ + 1,
                          !.last_upload = [op |-> s.op, task_title |-> s.task_title,
                                           project_arg |-> s.project_arg,
                                           project_id |-> s.project_id,
                                           is_today |-> s.is_today,
                                           task_id |-> s.task_id,
                                           ids_seen |-> s.ids_seen,
                                           downloaded |-> s.downloaded,
                                           uploaded |-> up]]
    IN  /\ s.pc = "update_contents"
        /\ now' = t
        /\ remote' = up
        /\ run' = [run EXCEPT ![r] =
                     IF s.op = "create_tasks" /\ s.iter # <<>>
                     THEN [done EXCEPT !.task_title = Head(s.iter), !.iter = Tail(s.iter),
                                       !.project_id = NULL, !.task_id = "",
                                       !.pc = after_begin(NULL, FALSE)]
                     ELSE Return(done, "ok")]
        /\ UNCHANGED start

\* files_download raises (the file is missing, the token exchange or the
\* network fails): the exception leaves the call, and no later call of the
\* run reaches the store.
files_download_raises(r) ==
    /\ run[r].pc \in {"default_project_id", "get_task_by_title", "new_task_id",
                      "contents", "cleanup_manual", "set_color",
                      "get_project_by_name", "tasks"}
    /\ run' = [run EXCEPT ![r] =
                 [Return(run[r], "transport") EXCEPT !.dropbox = IF @ = 0 THEN 1 ELSE @,
                                                 !.left = 0]]
    /\ UNCHANGED <<remote, now, start>>

\* One process: a sequence of calls on one SupProd object.
Next ==
    \E r \in Runs :
        \/ \E t \in Titles, p \in ProjectArgs, today \in BOOLEAN, unique \in BOOLEAN :
               call_create_task(r, t, p, today, unique)
        \/ \E b \in Batches : call_create_tasks(r, b)
        \/ call_cleanup_manual(r)
        \/ \E c \in Colors : call_set_color(r, c)
        \/ create_task_default_project_id(r)
        \/ create_task_get_task_by_title(r)
        \/ create_task_new_task_id(r)
        \/ create_task_contents(r)
        \/ cleanup_manual_contents(r)
        \/ set_color_contents(r)
        \/ update_contents(r)
        \/ files_download_raises(r)

Spec == Init /\ [][Next]_vars

\* -------------------------------------------------------- concurrent runs

\* Two processes, each with a SupProd object of its own, each issuing one
\* create_task or set_color on the same remote file.
ConcDocs ==
    {MkDoc(l, s) : l \in {<<>>, << <<"1", "default">> >>},
                   s \in {sh \in Shapes : sh.misc \in {"P1", ""} /\ sh.projects = {"DEFAULT", "P1"}
                                           /\ sh.tags = {"TODAY"}}}

InitConc ==
    /\ remote \in ConcDocs
    /\ start = remote
    /\ now = 0
    /\ run = [r \in Runs |-> Fresh(1)]

NextConc ==
    \E r \in Runs :
        \/ \E t \in Titles, p \in ProjectArgs, today \in BOOLEAN, unique \in BOOLEAN :
               call_create_task(r, t, p, today, unique)
        \/ \E c \in Colors : call_set_color(r, c)
        \/ create_task_default_project_id(r)
        \/ create_task_get_task_by_title(r)
        \/ create_task_new_task_id(r)
        \/ create_task_contents(r)
        \/ set_color_contents(r)
        \/ update_contents(r)
        \/ files_download_raises(r)

SpecConc == InitConc /\ [][NextConc]_vars

\* ------------------------------------------------------ the list commands

\* SupProd.projects and get_project_by_name(name) with case_insensitive=True
\* (client.py:159-171): the id of the first project, in the order of
\* project.ids, whose lowered title is the lowered name; "" when none is
\* (a ValueError).
get_project_by_name(c, name) ==
    LET hits == SelectSeq(c.project.ids,
                          LAMBDA p : lower(c.project.entities[p].title) = lower(name))
    IN  IF hits = <<>> THEN "" ELSE Head(hits)

\* Project.tasks (client.py:233-235): the module's tasks of this project id.
project_tasks(c, project_id) == SelectSeq(tasks(c), LAMBDA x : x.projectId = project_id)

\* What the list command prints for the tasks ts (__main__.py:31-32), and
\* what urls prints (__main__.py:35-40).
list_lines(ts) == [i \in DOMAIN ts |-> Title(ts[i])]
RECURSIVE urls_lines(_)
urls_lines(ts) ==
    IF ts = <<>> THEN <<>>
    ELSE LET t == Head(ts)
             links == SelectSeq(t.attachments, LAMBDA a : a.type = "LINK")
         IN  [i \in DOMAIN links |-> <<links[i].path, Title(t)>>] \o urls_lines(Tail(ts))

ListDocs ==
    LET kinds == {"default", "p1", "p1today", "inbox", "done"}
        shape == CHOOSE sh \in Shapes : sh.misc = "P1" /\ sh.projects = {"DEFAULT", "P1"}
                                          /\ sh.tags = {"TODAY"} /\ sh.extra = <<>>
    IN  {MkDoc(<<>>, shape)}
        \cup {MkDoc(<< <<"a", k>> >>, shape) : k \in kinds}
        \cup {MkDoc(<< <<"a", k[1]>>, <<"1", k[2]>> >>, shape) : k \in kinds \X kinds}
        \cup {MkDoc(<< <<"a", "p1today">>, <<"1", "default">>, <<"b", "p1today">> >>, shape)}

ProjectTitles == {NULL, "", "WORK", "inbox", "nope"}

\* `list` or `urls` is run with --project-title and --today as given.
call_list(r, cmd, project_title, today) ==
    /\ CanCall(run[r])
    /\ run' = [run EXCEPT ![r] =
                 [StartCall(run[r], cmd) EXCEPT
                     !.project_title = project_title, !.today = today,
                     !.pc = IF Falsy(project_title) THEN "tasks" ELSE "get_project_by_name"]]
    /\ UNCHANGED <<remote, now, start>>

\* get_list_tasks, lines 13-16, up to the attribute lookup on gen: a Project
\* has `tasks` and no `todays_tasks`, so with --today the lookup raises
\* AttributeError.
list_get_project_by_name(r) ==
    LET s == run[r]
        p == get_project_by_name(remote, s.project_title)
    IN  /\ s.pc = "get_project_by_name"
        /\ run' = [run EXCEPT ![r] =
                     IF p = "" \/ s.today
                     THEN Return([contents(s) EXCEPT !.gen = p], "error")
                     ELSE [contents(s) EXCEPT !.gen = p, !.pc = "tasks"]]
        /\ UNCHANGED <<remote, now, start>>

\* get_list_tasks, line 16, and the printing of the command.
list_tasks(r) ==
    LET s == run[r]
        ts == reversed(IF s.gen # "" THEN project_tasks(remote, s.gen)
                       ELSE IF s.today THEN todays_tasks(remote)
                       ELSE tasks(remote))
    IN  /\ s.pc = "tasks"
        /\ run' = [run EXCEPT ![r] =
                     IF all_tasks_raises(remote)
                     THEN Return(contents(s), "error")
                     ELSE Return([contents(s) EXCEPT
                                     !.listed = ts,
                                     !.printed = IF s.op = "list" THEN list_lines(ts)
                                                 ELSE urls_lines(ts)], "ok")]
        /\ UNCHANGED <<remote, now, start>>

InitList ==
    /\ remote \in ListDocs
    /\ start = remote
    /\ now = 0
    /\ run = [r \in Runs |-> Fresh(IF r = 1 THEN 1 ELSE 0)]

NextList ==
    \E r \in Runs :
        \/ \E cmd \in {"list", "urls"}, p \in ProjectTitles, today \in BOOLEAN :
               call_list(r, cmd, p, today)
        \/ list_get_project_by_name(r)
        \/ list_tasks(r)
        \/ files_download_raises(r)

SpecList == InitList /\ [][NextList]_vars

\* ------------------------------------------------------------------ claims

HasDuplicates(l) == \E i, j \in DOMAIN l : i < j /\ l[i] = l[j]

\* The smallest positive integer, as a string, that the list ids lacks.
IsSmallestAbsent(id, ids) ==
    \E i \in DOMAIN Numerals :
        /\ Numerals[i] = id
        /\ id \notin Range(ids)
        /\ \A j \in 1..(i - 1) : Numerals[j] \in Range(ids)

\* The project create_task resolves from its argument and the document d.
Resolved(project_arg, d) ==
    IF project_arg \notin {NULL, ""} THEN project_arg
    ELSE IF "defaultProjectId" \in DOMAIN d.globalConfig.misc
            /\ d.globalConfig.misc["defaultProjectId"] \notin {NULL, ""}
    THEN d.globalConfig.misc["defaultProjectId"]
    ELSE NULL

\* The document n is the document d with one task more, as create_task with
\* the arguments of u is to add it.
OneNewTask(u, d, n) ==
    LET id == u.task_id
        project == Resolved(u.project_arg, d)
        tagged == u.is_today \/ project = NULL
    IN  /\ project = NULL \/ project \in DOMAIN d.project.entities
        /\ IsSmallestAbsent(id, d.task.ids)
        /\ n.task.ids = Append(d.task.ids, id)
        /\ DOMAIN n.task.entities = DOMAIN d.task.entities \cup {id}
        /\ \A x \in DOMAIN d.task.entities : x # id => n.task.entities[x] = d.task.entities[x]
        /\ n.task.entities[id].title = u.task_title
        /\ n.task.entities[id].isDone = FALSE
        /\ n.task.entities[id].projectId = project
        /\ n.task.entities[id].tagIds = IF tagged THEN <<"TODAY">> ELSE <<>>
        /\ n.project.ids = d.project.ids
        /\ DOMAIN n.project.entities = DOMAIN d.project.entities
        /\ \A p \in DOMAIN d.project.entities :
               /\ n.project.entities[p].title = d.project.entities[p].title
               /\ n.project.entities[p].taskIds =
                      IF p = project THEN Append(d.project.entities[p].taskIds, id)
                      ELSE d.project.entities[p].taskIds
        /\ DOMAIN n.tag.entities = DOMAIN d.tag.entities
        /\ \A g \in DOMAIN d.tag.entities :
               /\ n.tag.entities[g].theme = d.tag.entities[g].theme
               /\ n.tag.entities[g].taskIds =
                      IF g = "TODAY" /\ tagged THEN Append(d.tag.entities[g].taskIds, id)
                      ELSE d.tag.entities[g].taskIds
        /\ tagged => "TODAY" \in DOMAIN d.tag.entities
        /\ n.globalConfig = d.globalConfig

\* create_task raised in the run s, with every download done: the resolved
\* project is not in the project collection, or the task is to be tagged and
\* the document has no TODAY tag, or is_unique reads the tasks and an id of
\* task.ids has no entity.
RaisedForMissingKey(s) ==
    LET project == Resolved(s.project_arg, remote)
    IN  \/ project # NULL /\ project \notin DOMAIN remote.project.entities
        \/ (s.is_today \/ project = NULL) /\ "TODAY" \notin DOMAIN remote.tag.entities
        \/ s.is_unique /\ \E x \in Range(remote.task.ids) : x \notin DOMAIN remote.task.entities

\* C1: every document create_task uploads (from create_task itself or from an
\* iteration of create_tasks) is the document it downloaded plus exactly one
\* task: the id is the smallest positive integer absent from task.ids, it is
\* appended last with the given title, isDone False and the resolved project,
\* it joins the resolved project's taskIds iff a project was resolved, and it
\* is tagged TODAY (tagIds and TODAY.taskIds) iff is_today or no project was
\* resolved.  A create_task that is not skipped does upload, unless a key is
\* missing (the resolved project, the TODAY tag, a task's entity) or a
\* download fails.
C1_CreateTaskAddsOneTask ==
    \A r \in Runs :
        LET s == run[r]
            u == s.last_upload
        IN  /\ u.op \in {"create_task", "create_tasks"} =>
                   OneNewTask(u, u.downloaded, u.uploaded)
            /\ s.op = "create_task" /\ s.pc = "done" /\ s.result = "ok" =>
                   /\ s.uploads = 1 /\ remote = u.uploaded
                   /\ u.task_title = s.task_title /\ u.project_arg = s.project_arg
                   /\ u.downloaded = s.before
            /\ s.op = "create_task" /\ s.pc = "done" /\ s.result = "error" =>
                   RaisedForMissingKey(s)

\* A create_task that resolved the default project P1 on a document whose ids
\* have a gap at "2", with is_today false: the new task is "2", untagged.
C1_Witness ==
    \E r \in Runs :
        LET u == run[r].last_upload
        IN  /\ u.op = "create_task"
            /\ u.project_arg = NULL /\ u.project_id = "P1" /\ ~u.is_today
            /\ u.task_id = "2" /\ "3" \in Range(u.downloaded.task.ids)
            /\ remote = u.uploaded

\* task.ids has no duplicates and the keys of task.entities are its ids.
TaskIdsWellFormed(c) ==
    /\ ~HasDuplicates(c.task.ids)
    /\ DOMAIN c.task.entities = Range(c.task.ids)

\* C4: from a remote document whose task ids are unique and are exactly the
\* keys of task.entities, every remote document a single run produces by
\* create_task, create_tasks, cleanup_manual and set_color calls (calls that
\* raise included) has the same two properties.
C4_TaskIdsStayWellFormed ==
    TaskIdsWellFormed(start) => TaskIdsWellFormed(remote)

\* A cleanup_manual that removed tasks, after a create_task, from a
\* well-formed start.
C4_Witness ==
    /\ TaskIdsWellFormed(start)
    /\ run[1].pc = "done" /\ run[1].op = "cleanup_manual" /\ run[1].result = "ok"
    /\ run[1].prev.op = "create_task" /\ run[1].prev.result = "ok"
    /\ Len(remote.task.ids) < Len(run[1].before.task.ids)

\* C8: a call of create_task, cleanup_manual or set_color uploads at most
\* once, and only as its last step: a call that has uploaded has returned,
\* and a call that raised (KeyError, ValueError, a failed download) uploaded
\* nothing and left the remote document as it was when the call began.
C8_UploadIsLastStep ==
    \A r \in Runs :
        LET s == run[r]
        IN  s.op \in {"create_task", "cleanup_manual", "set_color"} =>
                /\ s.uploads <= 1
                /\ s.uploads = 1 => s.pc = "done" /\ s.result = "ok"
                /\ s.pc = "done" /\ s.result = "ok" => s.uploads = 1
                /\ s.pc # "done" => remote = s.before
                /\ s.pc = "done" /\ s.result \in {"error", "transport", "skipped"} =>
                       s.uploads = 0 /\ remote = s.before

\* A cleanup_manual that raised on the non-integer id it met first, in a
\* document that holds an integer id too.
C8_Witness ==
    /\ run[1].pc = "done" /\ run[1].op = "cleanup_manual" /\ run[1].result = "error"
    /\ run[1].downloads = 1
    /\ Len(remote.task.ids) = 2
    /\ ~int_parses(remote.task.ids[1]) /\ int_parses(remote.task.ids[2])
    /\ "DEFAULT" \in DOMAIN remote.project.entities /\ "TODAY" \in DOMAIN remote.tag.entities

\* The lists of task ids beside task.ids: each project's taskIds and TODAY's.
Listed(c, p) == Range(c.project.entities[p].taskIds)
TodayListed(c) ==
    IF "TODAY" \in DOMAIN c.tag.entities THEN Range(c.tag.entities["TODAY"].taskIds) ELSE {}

\* (i) a task of a project is in that project's taskIds and in no other's;
\* (ii) a task tagged TODAY is in TODAY's taskIds.
ProjectAndTagListsHold(c) ==
    \A x \in DOMAIN c.task.entities :
        LET t == c.task.entities[x]
        IN  /\ t.projectId # NULL =>
                   /\ t.projectId \in DOMAIN c.project.entities
                   /\ x \in Listed(c, t.projectId)
                   /\ \A p \in DOMAIN c.project.entities : p # t.projectId => x \notin Listed(c, p)
            /\ "TODAY" \in Range(t.tagIds) => x \in TodayListed(c)

\* No project's taskIds and no TODAY.taskIds entry names a task that the last
\* upload, a cleanup_manual, removed from the task collection.
NoListNamesRemoved(s) ==
    LET u == s.last_upload
        removed == Range(u.downloaded.task.ids) \ Range(u.uploaded.task.ids)
    IN  u.op = "cleanup_manual" =>
            /\ \A p \in DOMAIN u.uploaded.project.entities : Listed(u.uploaded, p) \cap removed = {}
            /\ TodayListed(u.uploaded) \cap removed = {}

\* C5 as stated: from a remote document with (i) and (ii), every remote
\* document of a single run has (i) and (ii), and no list names a task that
\* cleanup_manual removed.
C5_Original ==
    ProjectAndTagListsHold(start) =>
        /\ ProjectAndTagListsHold(remote)
        /\ NoListNamesRemoved(run[1])

\* (iii) the lists name tasks of the collection only, each at most once, no
\* id is in the lists of two projects, and task ids are well formed.
ListsClean(c) ==
    /\ TaskIdsWellFormed(c)
    /\ \A p \in DOMAIN c.project.entities :
           /\ Listed(c, p) \subseteq Range(c.task.ids)
           /\ ~HasDuplicates(c.project.entities[p].taskIds)
           /\ \A q \in DOMAIN c.project.entities : p # q => Listed(c, p) \cap Listed(c, q) = {}
    /\ TodayListed(c) \subseteq Range(c.task.ids)
    /\ "TODAY" \in DOMAIN c.tag.entities => ~HasDuplicates(c.tag.entities["TODAY"].taskIds)

\* C5, amended: from a remote document with (i), (ii) and (iii), every remote
\* document of a single run has (i), (ii) and (iii), and no list names a task
\* that cleanup_manual removed.
C5_ListsStayConsistent ==
    ProjectAndTagListsHold(start) /\ ListsClean(start) =>
        /\ ProjectAndTagListsHold(remote)
        /\ ListsClean(remote)
        /\ NoListNamesRemoved(run[1])

\* A cleanup_manual that removed the task a create_task had added to the
\* project DEFAULT and to TODAY.
C5_Witness ==
    /\ ProjectAndTagListsHold(start) /\ ListsClean(start)
    /\ run[1].pc = "done" /\ run[1].op = "cleanup_manual" /\ run[1].result = "ok"
    /\ run[1].prev.op = "create_task" /\ run[1].prev.result = "ok"
    /\ Len(remote.task.ids) < Len(run[1].before.task.ids)
    /\ Len(start.task.ids) = Len(remote.task.ids)

\* C6 as stated: one process downloads the remote document at most once.
C6_Original ==
    \A r \in Runs : run[r].process_downloads <= 1

\* C6, amended: one process builds the Dropbox client once and reuses it, and
\* caches no document: every access to `contents` is a download.  A
\* create_task that uploads has downloaded 2 to 4 times (default_project_id
\* when the project_id argument is empty, get_task_by_title when is_unique,
\* new_task_id, the document it mutates), one that returns early 1 or 2 times,
\* create_tasks 3 times per upload, cleanup_manual and set_color once.
C6_EveryAccessDownloads ==
    \A r \in Runs :
        LET s == run[r]
            resolve == IF s.project_arg \in {NULL, ""} THEN 1 ELSE 0
            unique == IF s.is_unique THEN 1 ELSE 0
        IN  /\ s.dropbox <= 1
            /\ s.process_downloads > 0 => s.dropbox = 1
            /\ s.process_downloads >= s.downloads
            /\ s.pc = "done" /\ s.result = "ok" =>
                   s.downloads = CASE s.op = "create_task" -> 2 + resolve + unique
                                   [] s.op = "create_tasks" -> 3 * s.uploads
                                   [] s.op \in {"cleanup_manual", "set_color"} -> 1
                                   [] OTHER -> s.downloads
            /\ s.pc = "done" /\ s.result = "skipped" => s.downloads = resolve + 1

\* The second create_task of a process, with no project_id and is_unique: it
\* downloads four times, eight for the process, with one client.
C6_Witness ==
    /\ run[1].pc = "done" /\ run[1].op = "create_task" /\ run[1].result = "ok"
    /\ run[1].downloads = 4 /\ run[1].process_downloads = 8 /\ run[1].dropbox = 1

\* The not-done tasks of c whose stored title is t.
NotDoneTitled(c, t) ==
    {i \in DOMAIN c.task.ids :
        /\ c.task.ids[i] \in DOMAIN c.task.entities
        /\ ~c.task.entities[c.task.ids[i]].isDone
        /\ c.task.entities[c.task.ids[i]].title = t}

\* C2 as stated: for every title t, when create_task(t, is_unique=True) has
\* returned and the same call is made next, with no other writer, the second
\* call returns early with no upload, so the remote document is the one the
\* first call left and holds one not-done task titled t that these calls made.
C2_Original ==
    \A r \in Runs :
        LET s == run[r]
        IN  /\ s.pc = "done" /\ s.op = "create_task" /\ s.is_unique
            /\ s.result # "transport"
            /\ s.prev.op = "create_task" /\ s.prev.is_unique
            /\ s.prev.task_title = s.task_title
            /\ s.prev.project_arg = s.project_arg /\ s.prev.is_today = s.is_today
            /\ s.prev.result \in {"ok", "skipped"}
            => /\ s.result = "skipped"
               /\ s.uploads = 0
               /\ remote = s.before
               /\ Cardinality(NotDoneTitled(remote, s.task_title))
                      = Cardinality(NotDoneTitled(s.before, s.task_title))

\* A document on which every removal of cleanup_manual's body can be done:
\* the project DEFAULT and the tag TODAY exist, each integer id of task.ids
\* has its entity and is once in task.ids, DEFAULT.taskIds and TODAY.taskIds.
CleanupCanRemove(c) ==
    /\ "DEFAULT" \in DOMAIN c.project.entities
    /\ "TODAY" \in DOMAIN c.tag.entities
    /\ DOMAIN c.task.entities = Range(c.task.ids)
    /\ \A x \in Range(c.task.ids) :
           int_parses(x) =>
               /\ Count(c.task.ids, x) = 1
               /\ Count(c.project.entities["DEFAULT"].taskIds, x) = 1
               /\ Count(c.tag.entities["TODAY"].taskIds, x) = 1

\* C3 as stated: cleanup_manual on such a document, whatever mix of integer
\* and other ids task.ids holds, uploads once a document with no integer id
\* in task.ids, task.entities, DEFAULT.taskIds or TODAY.taskIds, and every
\* task of a non-integer id as it was.
C3_Original ==
    \A r \in Runs :
        LET s == run[r]
            b == s.before
        IN  /\ s.pc = "done" /\ s.op = "cleanup_manual" /\ s.result # "transport"
            /\ CleanupCanRemove(b)
            => /\ s.result = "ok" /\ s.uploads = 1
               /\ \A x \in Range(remote.task.ids) \cup DOMAIN remote.task.entities
                           \cup Listed(remote, "DEFAULT") \cup TodayListed(remote) :
                      ~int_parses(x)
               /\ \A x \in DOMAIN b.task.entities :
                      ~int_parses(x) =>
                          /\ x \in DOMAIN remote.task.entities
                          /\ remote.task.entities[x] = b.task.entities[x]
                          /\ x \in Range(remote.task.ids)

\* The tasks the list commands are to show with --today: the not-done tasks
\* tagged TODAY (of the project, when one is given), last id first.
ExpectedToday(c, project_id) ==
    reversed(SelectSeq(all_tasks(c),
                       LAMBDA t : /\ ~t.isDone
                                  /\ "TODAY" \in Range(t.tagIds)
                                  /\ project_id # "" => t.projectId = project_id))

NamedProject(c, name) ==
    IF name \in {NULL, ""} THEN ""
    ELSE CHOOSE p \in DOMAIN c.project.entities \cup {"?"} :
            \/ p # "?" /\ lower(c.project.entities[p].title) = lower(name)
            \/ p = "?" /\ \A q \in DOMAIN c.project.entities :
                              lower(c.project.entities[q].title) # lower(name)

\* C7 as stated: list and urls with --today, with or without a --project-title
\* that names a project, end without error and show exactly the not-done
\* tasks tagged TODAY (of that project), in the reverse of task.ids.
C7_Original ==
    \A r \in Runs :
        LET s == run[r]
            p == NamedProject(remote, s.project_title)
        IN  /\ s.pc = "done" /\ s.op \in {"list", "urls"} /\ s.today
            /\ s.result # "transport"
            /\ p # "?"
            => /\ s.result = "ok"
               /\ s.listed = ExpectedToday(remote, p)

\* The run r downloaded the document it mutated before the run o uploaded,
\* and uploaded after it.
StaleUploadAfter(r, o) ==
    LET ur == run[r].last_upload
        uo == run[o].last_upload
    IN  /\ r # o
        /\ run[r].uploads = 1 /\ run[o].uploads = 1
        /\ ur.downloaded.lastLocalSyncModelChange < uo.uploaded.lastLocalSyncModelChange
        /\ uo.uploaded.lastLocalSyncModelChange < ur.uploaded.lastLocalSyncModelChange

\* C9: update_contents replaces the remote file whatever it holds: the file
\* after an upload is the uploader's document with a new stamp and the call
\* returns normally; when a run uploads a document it downloaded before the
\* other run's upload, both calls return normally and the remote document is
\* that run's change applied to the old document, with nothing of the upload
\* that came first.
C9_LastWriteWins ==
    \A r \in Runs :
        LET s == run[r]
            u == s.last_upload
        IN  /\ s.uploads = 1 =>
                   /\ u.uploaded = stamped(s.contents, u.uploaded.lastLocalSyncModelChange)
                   /\ s.pc = "done" /\ s.result = "ok"
            /\ \A o \in Runs :
                   StaleUploadAfter(r, o) =>
                       /\ run[o].result = "ok"
                       /\ remote = u.uploaded
                       /\ u.downloaded = start
                       /\ u.op = "set_color" =>
                              /\ remote.task = start.task
                              /\ remote.project = start.project
                       /\ u.op = "create_task" =>
                              /\ remote.task.ids = Append(start.task.ids, u.task_id)
                              /\ remote.tag.entities["TODAY"].theme = start.tag.entities["TODAY"].theme

\* A lost update: create_task of one run uploaded first, set_color of the
\* other uploaded a document downloaded before that; both returned normally
\* and the remote document has the tasks of the start, without the new task.
C9_Witness ==
    \E r, o \in Runs :
        /\ StaleUploadAfter(r, o)
        /\ run[o].last_upload.op = "create_task" /\ run[r].last_upload.op = "set_color"
        /\ run[o].result = "ok" /\ run[r].result = "ok"
        /\ run[o].last_upload.task_id \in Range(run[o].last_upload.uploaded.task.ids)
        /\ run[o].last_upload.task_id \notin Range(remote.task.ids)
        /\ remote.task = start.task
        /\ remote.tag.entities["TODAY"].theme.primary = "red"

\* The run o uploaded a task under the id the run r had picked in
\* new_task_id, and the document r then downloaded (line 105) is that upload.
SameIdUploadedBetween(r, o) ==
    LET ur == run[r].last_upload
        uo == run[o].last_upload
    IN  /\ r # o
        /\ ur.op = "create_task" /\ uo.op = "create_task"
        /\ ur.task_id = uo.task_id
        /\ ur.task_id \notin Range(ur.ids_seen)
        /\ ur.downloaded = uo.uploaded

\* C10: create_task takes its id from the download of new_task_id and appends
\* it to a later download; when the other run uploaded a task with that id
\* between the two, the document create_task uploads holds the id twice in
\* task.ids and, under that id, the new record in place of the other run's.
C10_DuplicateIdAcrossDownloads ==
    \A r, o \in Runs :
        SameIdUploadedBetween(r, o) =>
            LET ur == run[r].last_upload
                id == ur.task_id
            IN  /\ Count(ur.downloaded.task.ids, id) = 1
                /\ Count(ur.uploaded.task.ids, id) = 2
                /\ DOMAIN ur.uploaded.task.entities = DOMAIN ur.downloaded.task.entities
                /\ ur.uploaded.task.entities[id].title = ur.task_title
                /\ ur.uploaded.task.entities[id].projectId = ur.project_id

\* The race with two titles: the remote document ends with the id twice and
\* one record, the later run's; the earlier run's title is gone.
C10_Witness ==
    \E r, o \in Runs :
        /\ SameIdUploadedBetween(r, o)
        /\ run[r].last_upload.task_title # run[o].last_upload.task_title
        /\ remote = run[r].last_upload.uploaded
        /\ HasDuplicates(remote.task.ids)
        /\ \A x \in DOMAIN remote.task.entities :
               remote.task.entities[x].title # run[o].last_upload.task_title

====
